---- MODULE Spec2Model ----
(***************************************************************************)
(* Model of src/src/components/SVGViewer.tsx: the SVGViewer component.     *)
(*                                                                         *)
(* A text (the editor content, a file's content, the clipboard content) is *)
(* abstracted to what the component's code can observe of it:              *)
(*   kind  "empty"  the empty string                                       *)
(*         "blank"  white space only (truthy, but trim() is empty)         *)
(*         "junk"   non-blank, does not match /<svg[^>]*>[\s\S]*<\/svg>/i  *)
(*         "nosvg"  matches the regex, but DOMParser + querySelector('svg')*)
(*                  finds no element, e.g. <svgs><!--</svg>--></svgs>      *)
(*         "svg"    matches the regex and has an <svg> element             *)
(*   w, h  the width / height attribute of the <svg> element               *)
(*   vb    the viewBox attribute after split(' ').map(Number)              *)
(*   form  "crlf"   source text with CR LF line breaks                     *)
(*         "lf"     source text with LF line breaks                        *)
(*         "ser"    the text XMLSerializer produces for the document       *)
(***************************************************************************)
EXTENDS Integers, Sequences, FiniteSets

\* ------------------------------------------------------------------ bounds
MaxUploads == 2
MaxExports == 1

\* --------------------------------------------------- encodings, constants
\* attribute value: Absent, NaN (a non-numeric text), or n (the text of n)
Absent == -2
NaN == -1
NoViewBox == <<>>
DefaultPreviewSize == 300
DefaultExportWidth == 800
DefaultExportHeight == 600

Txt(k, f) ==
  [kind |-> k, w |-> Absent, h |-> Absent, vb |-> NoViewBox, form |-> f]

Svg(w, h, vb, f) ==
  [kind |-> "svg", w |-> w, h |-> h, vb |-> vb, form |-> f]

Empty == Txt("empty", "lf")
Blank == Txt("blank", "lf")
Junk == Txt("junk", "lf")
NoSvg == Txt("nosvg", "lf")
SvgBare == Svg(Absent, Absent, <<0, 0, 5, 7>>, "crlf")
SvgSized == Svg(3, 4, NoViewBox, "lf")

\* ----------------------------------------------------------- pure helpers
\* CodeMirror keeps a document as lines: a text given to it is split at
\* /\r\n?|\n/ and doc.toString() joins the lines with "\n".
CMDoc(t) == IF t.form = "crlf" THEN [t EXCEPT !.form = "lf"] ELSE t

\* !code
IsEmpty(t) == t.kind = "empty"

\* !code.trim()
TrimIsEmpty(t) == t.kind \in {"empty", "blank"}

isValidSvg(code) == code.kind \in {"svg", "nosvg"}

\* parser.parseFromString(...).querySelector('svg') is not null
HasSvgElement(t) == t.kind = "svg"

HasAttr(a) == a # Absent

\* a viewBox attribute that split(' ').map(Number) turns into 4 entries
FourEntries(vb) == vb # NoViewBox /\ Len(vb) = 4

\* width.toString() written by setAttribute: NaN becomes the text "NaN"
NumToAttr(n) == n

EnsureWidthMutant(t) ==
  LET fromVb == IF (~HasAttr(t.w) \/ ~HasAttr(t.h)) /\ FourEntries(t.vb)
                   /\ ~HasAttr(t.w)
                THEN NumToAttr(t.vb[1]) ELSE t.w
  IN IF ~HasAttr(fromVb) THEN DefaultPreviewSize ELSE fromVb

EnsureWidth(t) ==
  LET fromVb == IF (~HasAttr(t.w) \/ ~HasAttr(t.h)) /\ FourEntries(t.vb)
                   /\ ~HasAttr(t.w)
                THEN NumToAttr(t.vb[3]) ELSE t.w
  IN IF ~HasAttr(fromVb) THEN DefaultPreviewSize ELSE fromVb

EnsureHeight(t) ==
  LET fromVb == IF (~HasAttr(t.w) \/ ~HasAttr(t.h)) /\ FourEntries(t.vb)
                   /\ ~HasAttr(t.h)
                THEN NumToAttr(t.vb[4]) ELSE t.h
  IN IF ~HasAttr(fromVb) THEN DefaultPreviewSize ELSE fromVb

ensureSvgDimensions(code) ==
  IF IsEmpty(code) \/ ~isValidSvg(code) THEN code
  ELSE IF ~HasSvgElement(code) THEN code
  ELSE [kind |-> "svg", w |-> EnsureWidth(code), h |-> EnsureHeight(code),
        vb |-> code.vb, form |-> "ser"]

\* parseInt(getAttribute(..) || '0')
ParseIntAttr(a) == IF a = Absent THEN 0 ELSE a

\* JavaScript truthiness of a number: !n is true for 0 and NaN
Truthy(n) == n # 0 /\ n # NaN

\* the <width, height> exportAsImage gives the canvas
ExportSize(t) ==
  LET w0 == ParseIntAttr(t.w)
      h0 == ParseIntAttr(t.h)
      useVb == (~Truthy(w0) \/ ~Truthy(h0)) /\ FourEntries(t.vb)
      w1 == IF useVb THEN t.vb[3] ELSE w0
      h1 == IF useVb THEN t.vb[4] ELSE h0
  IN IF ~Truthy(w1) \/ ~Truthy(h1)
     THEN <<DefaultExportWidth, DefaultExportHeight>>
     ELSE <<w1, h1>>

\* file.name.replace(/\.[^/.]+$/, ""); a name is its dot-separated segments
NameWithoutExt(n) ==
  IF Len(n) > 1 /\ n[Len(n)] # "" THEN SubSeq(n, 1, Len(n) - 1) ELSE n

\* ------------------------------------------------------------------ state
VARIABLES
  svgCode,         \* useState(initialSvg): the editor text
  previewSvgCode,  \* useState(''): the copy the preview renders
  doc,             \* viewRef.current.state.doc.toString()
  pending,         \* the effect on [svgCode] is scheduled and has not run
  fileName,        \* useState('svg-preview'), as dot-separated segments
  scale,           \* useState(1), in tenths
  position,        \* useState({x: 0, y: 0})
  isDragging,      \* useState(false)
  dragStart,       \* useState({x: 0, y: 0})
  reading,         \* files whose FileReader.readAsText has not completed
  exporting,       \* exportAsImage calls waiting for their image to load
  toast,           \* notification raised by the last step
  event,           \* what the last step was
  saved,           \* file handed to saveAs by the last step
  canvas,          \* <<width, height>> of the canvas made by the last step
  escaped,         \* an exception left the handler run by the last step
  chain,           \* history: runs of the effect since the last other step
  cleared,         \* history: clearSvgCode was the last change of the text
  clean            \* history: only uploads changed text and name since the
                   \* first of the uploads now or last in flight began

vars ==
  <<svgCode, previewSvgCode, doc, pending, fileName, scale, position,
    isDragging, dragStart, reading, exporting, toast, event, saved, canvas,
    escaped, chain, cleared, clean>>

Origin == [x |-> 0, y |-> 0]
DefaultFileName == <<"svg-preview">>
NoFile == [name |-> <<>>, ext |-> "none", content |-> Empty, at |-> Empty]
NoCanvas == <<0, 0>>

\* ----------------------------------------------------------------- inputs
\* texts a user supplies (initialSvg, clipboard, file content)
UITexts == {Empty, Blank, Junk, NoSvg, SvgBare, CMDoc(SvgBare), SvgSized}

\* texts the editor can hold: CodeMirror documents have no CR
EditorTexts == {t \in UITexts : CMDoc(t) = t}

Files ==
  {[name |-> <<"a", "svg">>, content |-> SvgBare],
   [name |-> <<"b", "svg">>, content |-> SvgSized]}

TypedNames == {<<"a">>}
ScaleValues == {10, 30}
Formats == {"png", "jpeg", "svg"}

\* texts for the dimension inference alone; lengths are non-negative integers
AttrWidths == {Absent, NaN, 0, 3}
AttrHeights == {Absent, NaN, 0, 4}
ViewBoxes ==
  {NoViewBox, <<0, 0, 5, 7>>, <<0, 0, 0, 7>>, <<0, 0, 5, 0>>, <<0, 0, 0, 0>>,
   <<0, 0, 5>>, <<0, 0, NaN, 7>>, <<0>>}
DimTexts ==
  UITexts \cup
  {Svg(w, h, vb, f) : w \in AttrWidths, h \in AttrHeights, vb \in ViewBoxes,
                      f \in {"lf"}}

\* ------------------------------------------------------------ render props
\* disabled={!svgCode || !isValidSvg(svgCode)}
PngDisabledMutant == IsEmpty(svgCode)

PngDisabled == IsEmpty(svgCode) \/ ~isValidSvg(svgCode)

JpegDisabled == IsEmpty(svgCode) \/ ~isValidSvg(svgCode)

\* disabled={!svgCode}
DownloadDisabled == IsEmpty(svgCode)

CopyDisabled == IsEmpty(svgCode)

\* previewSvgCode ? <div style=transform ... /> : placeholder
PlaceholderShown == IsEmpty(previewSvgCode)

\* transform: scale(${scale}) translate(${position.x}px, ${position.y}px)
PreviewTransform == [scale |-> scale, translate |-> position]

\* ------------------------------------------------------------------ steps
\* A step is one event handler, effect or callback run to completion on the
\* single JavaScript thread, with the re-render it causes.  React runs the
\* effect a render scheduled before it handles the next event, so every
\* handler has ~pending as a guard and reads the state of the latest render.
\* toast, event, saved, canvas and escaped describe the last step only.
Out(e, t, s, c) ==
  /\ event' = e
  /\ toast' = t
  /\ saved' = s
  /\ canvas' = c
  /\ escaped' = FALSE
  /\ chain' = IF e = "effect" THEN chain + 1 ELSE 0

\* setSvgCode(t): React re-renders, and schedules the effect on [svgCode],
\* only when the value differs
SetSvgCode(t) ==
  /\ svgCode' = t
  /\ pending' = (pending \/ t # svgCode)

Init ==
  /\ svgCode \in UITexts
  /\ previewSvgCode = Empty
  /\ doc = CMDoc(svgCode)
  /\ pending = TRUE
  /\ fileName = DefaultFileName
  /\ scale = 10
  /\ position = Origin
  /\ isDragging = FALSE
  /\ dragStart = Origin
  /\ reading = {}
  /\ exporting = {}
  /\ toast = "none"
  /\ event = "mount"
  /\ saved = NoFile
  /\ canvas = NoCanvas
  /\ escaped = FALSE
  /\ chain = 0
  /\ cleared = FALSE
  /\ clean = FALSE

\* setPreviewSvgCode(ensureSvgDimensions(newSvgCode)) in the update listener
ListenerPreviewMutant(newSvgCode, old) ==
  IF isValidSvg(newSvgCode) THEN ensureSvgDimensions(newSvgCode) ELSE old

ListenerPreview(newSvgCode, old) == ensureSvgDimensions(newSvgCode)

\* currentContent !== svgCode
NeedsDispatchMutant(currentContent, code) == FALSE

NeedsDispatch(currentContent, code) == currentContent # code

\* useEffect(..., [svgCode]): bring the editor to svgCode; the dispatch runs
\* the update listener, which sets svgCode and previewSvgCode from the
\* editor's document
RunEffect ==
  /\ pending
  /\ IF NeedsDispatch(doc, svgCode)
     THEN LET newSvgCode == CMDoc(svgCode)
          IN /\ doc' = newSvgCode
             /\ svgCode' = newSvgCode
             /\ previewSvgCode' = ListenerPreview(newSvgCode, previewSvgCode)
             /\ pending' = (newSvgCode # svgCode)
     ELSE /\ pending' = FALSE
          /\ UNCHANGED <<doc, svgCode, previewSvgCode>>
  /\ Out("effect", "none", NoFile, NoCanvas)
  /\ UNCHANGED <<fileName, scale, position, isDragging, dragStart, reading,
                 exporting, cleared, clean>>

\* the user edits the CodeMirror document; the update listener runs
EditorChange ==
  /\ ~pending
  /\ \E t \in EditorTexts :
       /\ t # doc
       /\ doc' = t
       /\ SetSvgCode(t)
       /\ previewSvgCode' = ListenerPreview(t, previewSvgCode)
  /\ cleared' = FALSE
  /\ clean' = FALSE
  /\ Out("edit", "none", NoFile, NoCanvas)
  /\ UNCHANGED <<fileName, scale, position, isDragging, dragStart, reading,
                 exporting>>

\* handleFileUpload: the name is set at once, the text when the read ends
handleFileUpload ==
  /\ ~pending
  /\ Cardinality(reading) < MaxUploads
  /\ \E file \in Files \ reading :
       /\ fileName' = NameWithoutExt(file.name)
       /\ reading' = reading \cup {file}
  /\ clean' = IF reading = {} THEN TRUE ELSE clean
  /\ Out("upload", "none", NoFile, NoCanvas)
  /\ UNCHANGED <<svgCode, previewSvgCode, doc, pending, scale, position,
                 isDragging, dragStart, exporting, cleared>>

\* reader.onload of one of the reads in flight, in any order
FileLoaded ==
  /\ ~pending
  /\ \E file \in reading :
       /\ SetSvgCode(file.content)
       /\ reading' = reading \ {file}
  /\ cleared' = FALSE
  /\ Out("loaded", "none", NoFile, NoCanvas)
  /\ UNCHANGED <<previewSvgCode, doc, fileName, scale, position, isDragging,
                 dragStart, exporting, clean>>

handleFileNameChange ==
  /\ ~pending
  /\ \E n \in TypedNames : n # fileName /\ fileName' = n
  /\ clean' = FALSE
  /\ Out("rename", "none", NoFile, NoCanvas)
  /\ UNCHANGED <<svgCode, previewSvgCode, doc, pending, scale, position,
                 isDragging, dragStart, reading, exporting, cleared>>

\* handlePasteFromClipboard, taken when navigator.clipboard.readText()
\* settles (the handler reads no component state after the await)
handlePasteFromClipboard ==
  /\ ~pending
  /\ \E denied \in BOOLEAN, clipboardText \in UITexts :
       IF denied
       THEN /\ Out("paste_denied", "error", NoFile, NoCanvas)
            /\ UNCHANGED <<svgCode, pending, cleared, clean>>
       ELSE IF isValidSvg(clipboardText)
       THEN /\ SetSvgCode(clipboardText)
            /\ cleared' = FALSE
            /\ clean' = FALSE
            /\ Out("paste", "success", NoFile, NoCanvas)
       ELSE /\ Out("paste_invalid", "error", NoFile, NoCanvas)
            /\ UNCHANGED <<svgCode, pending, cleared, clean>>
  /\ UNCHANGED <<previewSvgCode, doc, fileName, scale, position, isDragging,
                 dragStart, reading, exporting>>

clearSvgCode ==
  /\ ~pending
  /\ SetSvgCode(Empty)
  /\ cleared' = TRUE
  /\ clean' = FALSE
  /\ Out("clear", "info", NoFile, NoCanvas)
  /\ UNCHANGED <<previewSvgCode, doc, fileName, scale, position, isDragging,
                 dragStart, reading, exporting>>

\* new Blob([svgCode])
BlobContentMutant(code) == ensureSvgDimensions(code)

BlobContent(code) == code

downloadSvgCode ==
  /\ ~pending
  /\ ~DownloadDisabled
  /\ IF TrimIsEmpty(svgCode)
     THEN Out("download_blank", "error", NoFile, NoCanvas)
     ELSE Out("download", "success",
              [name |-> fileName, ext |-> "svg",
               content |-> BlobContent(svgCode), at |-> svgCode],
              NoCanvas)
  /\ UNCHANGED <<svgCode, previewSvgCode, doc, pending, fileName, scale,
                 position, isDragging, dragStart, reading, exporting, cleared,
                 clean>>

\* copySvgCode, taken when navigator.clipboard.writeText() settles
copySvgCode ==
  /\ ~pending
  /\ ~CopyDisabled
  /\ \E denied \in BOOLEAN :
       IF TrimIsEmpty(svgCode)
       THEN Out("copy_blank", "error", NoFile, NoCanvas)
       ELSE IF denied
       THEN Out("copy_denied", "error", NoFile, NoCanvas)
       ELSE Out("copy", "success", NoFile, NoCanvas)
  /\ UNCHANGED <<svgCode, previewSvgCode, doc, pending, fileName, scale,
                 position, isDragging, dragStart, reading, exporting, cleared,
                 clean>>

\* the button that calls exportAsImage(format) is enabled; no button of the
\* component passes 'svg', the third value the function accepts
ExportEnabled(format) ==
  CASE format = "png" -> ~PngDisabled
    [] format = "jpeg" -> ~JpegDisabled
    [] OTHER -> TRUE

\* exportAsImage up to its await: the early returns, or an image that loads
\* a data URL made from the render's svgCode
exportAsImage ==
  /\ ~pending
  /\ \E format \in Formats :
       /\ ExportEnabled(format)
       /\ IF IsEmpty(svgCode)
          THEN /\ Out("export_empty", "error", NoFile, NoCanvas)
               /\ UNCHANGED exporting
          ELSE IF ~HasSvgElement(svgCode)
          THEN /\ Out("export_nosvg", "error", NoFile, NoCanvas)
               /\ UNCHANGED exporting
          ELSE /\ Cardinality(exporting) < MaxExports
               /\ exporting' = exporting \cup
                    {[format |-> format, svgCode |-> svgCode,
                      fileName |-> fileName]}
               /\ Out("export_started", "none", NoFile, NoCanvas)
  /\ UNCHANGED <<svgCode, previewSvgCode, doc, pending, fileName, scale,
                 position, isDragging, dragStart, reading, cleared, clean>>

\* the switch on format: what saveAs receives; e is the call's closure
ExportFile(e) ==
  CASE e.format = "png" ->
         [name |-> e.fileName, ext |-> "png", content |-> e.svgCode,
          at |-> e.svgCode]
    [] e.format = "jpeg" ->
         [name |-> e.fileName, ext |-> "jpg", content |-> e.svgCode,
          at |-> e.svgCode]
    [] OTHER ->
         [name |-> e.fileName, ext |-> "svg",
          content |-> BlobContent(e.svgCode), at |-> e.svgCode]

\* what the call saves once its image has loaded: nothing without a context
CanvasSaveMutant(e, ctx) == ExportFile(e)

CanvasSave(e, ctx) == IF ctx THEN ExportFile(e) ELSE NoFile

\* img.onload: the canvas is made and sized, then drawn and saved
ImageLoaded ==
  /\ ~pending
  /\ \E e \in exporting, ctx \in BOOLEAN :
       /\ exporting' = exporting \ {e}
       /\ Out(IF ctx THEN "exported" ELSE "export_no_ctx",
              IF ctx THEN "success" ELSE "error",
              CanvasSave(e, ctx), ExportSize(e.svgCode))
  /\ UNCHANGED <<svgCode, previewSvgCode, doc, pending, fileName, scale,
                 position, isDragging, dragStart, reading, cleared, clean>>

\* img.onerror: the promise rejects into the catch
ImageError ==
  /\ ~pending
  /\ \E e \in exporting : exporting' = exporting \ {e}
  /\ Out("export_img_error", "error", NoFile, NoCanvas)
  /\ UNCHANGED <<svgCode, previewSvgCode, doc, pending, fileName, scale,
                 position, isDragging, dragStart, reading, cleared, clean>>

\* the range input's onChange: handleScaleChange(e); resetPosition()
handleScaleChange ==
  /\ ~pending
  /\ \E v \in ScaleValues : v # scale /\ scale' = v
  /\ position' = Origin
  /\ Out("scale", "none", NoFile, NoCanvas)
  /\ UNCHANGED <<svgCode, previewSvgCode, doc, pending, fileName, isDragging,
                 dragStart, reading, exporting, cleared, clean>>

Next ==
  \/ RunEffect
  \/ EditorChange
  \/ handleFileUpload
  \/ FileLoaded
  \/ handleFileNameChange
  \/ handlePasteFromClipboard
  \/ clearSvgCode
  \/ downloadSvgCode
  \/ copySvgCode
  \/ exportAsImage
  \/ ImageLoaded
  \/ ImageError
  \/ handleScaleChange

Spec == Init /\ [][Next]_vars

\* ------------------------------------- the dimension inference on its own
DimInit ==
  /\ svgCode \in DimTexts
  /\ previewSvgCode = Empty
  /\ doc = CMDoc(svgCode)
  /\ pending = FALSE
  /\ fileName = DefaultFileName
  /\ scale = 10
  /\ position = Origin
  /\ isDragging = FALSE
  /\ dragStart = Origin
  /\ reading = {}
  /\ exporting = {}
  /\ toast = "none"
  /\ event = "input"
  /\ saved = NoFile
  /\ canvas = NoCanvas
  /\ escaped = FALSE
  /\ chain = 0
  /\ cleared = FALSE
  /\ clean = FALSE

\* previewSvgCode := ensureSvgDimensions(svgCode)
DimEnsure ==
  /\ event = "input"
  /\ previewSvgCode' = ensureSvgDimensions(svgCode)
  /\ event' = "ensured"
  /\ UNCHANGED <<svgCode, doc, pending, fileName, scale, position, isDragging,
                 dragStart, reading, exporting, toast, saved, canvas, escaped,
                 chain, cleared, clean>>

\* canvas := the size exportAsImage computes for svgCode
DimExport ==
  /\ canvas = NoCanvas
  /\ ~IsEmpty(svgCode)
  /\ HasSvgElement(svgCode)
  /\ canvas' = ExportSize(svgCode)
  /\ UNCHANGED <<svgCode, previewSvgCode, doc, pending, fileName, scale,
                 position, isDragging, dragStart, reading, exporting, toast,
                 event, saved, escaped, chain, cleared, clean>>

DimNext == DimEnsure \/ DimExport

DimSpec == DimInit /\ [][DimNext]_vars

\* ----------------------------------------------------------------- claims

FourNumbers(t) == FourEntries(t.vb) /\ \A i \in 1..4 : t.vb[i] # NaN

LacksDimension(t) ==
  t.kind = "svg" /\ (~HasAttr(t.w) \/ ~HasAttr(t.h)) /\ FourNumbers(t)

\* what ensureSvgDimensions does for a text lacking width and/or height
\* with a viewBox of four numbers: the missing attribute gets W resp. H
PreviewTakesViewBox ==
  event = "ensured" /\ LacksDimension(svgCode) =>
    /\ ~HasAttr(svgCode.w) => previewSvgCode.w = svgCode.vb[3]
    /\ ~HasAttr(svgCode.h) => previewSvgCode.h = svgCode.vb[4]

\* C2 (as stated): for a text whose <svg> lacks width and/or height and has
\* a viewBox of four numbers minX minY W H, ensureSvgDimensions gives the
\* missing attribute the value W resp. H, and exportAsImage sizes the canvas
\* W by H.
ViewBoxGivesDimensions ==
  /\ PreviewTakesViewBox
  /\ canvas # NoCanvas /\ LacksDimension(svgCode) =>
       canvas = <<svgCode.vb[3], svgCode.vb[4]>>

\* C2 (amended): as stated for ensureSvgDimensions; exportAsImage sizes the
\* canvas W by H when W and H are both non-zero.
ViewBoxGivesNonZeroDimensions ==
  /\ PreviewTakesViewBox
  /\ canvas # NoCanvas /\ LacksDimension(svgCode)
       /\ svgCode.vb[3] # 0 /\ svgCode.vb[4] # 0 =>
       canvas = <<svgCode.vb[3], svgCode.vb[4]>>

ViewBoxDimensionsInferred ==
  /\ event = "ensured"
  /\ LacksDimension(svgCode)
  /\ ~HasAttr(svgCode.w)
  /\ HasAttr(svgCode.h)
  /\ previewSvgCode.w = svgCode.vb[3]
  /\ previewSvgCode.h = svgCode.h
  /\ canvas = <<svgCode.vb[3], svgCode.vb[4]>>

ClearEmptiesPreview ==
  cleared /\ ~pending =>
    IsEmpty(svgCode) /\ IsEmpty(previewSvgCode) /\ PlaceholderShown

ClearedAndSynced ==
  /\ cleared
  /\ ~pending
  /\ event = "effect"
  /\ IsEmpty(doc)
  /\ PlaceholderShown

FailureEvents ==
  {"paste_invalid", "paste_denied", "copy_denied", "export_nosvg",
   "export_img_error", "export_no_ctx"}

\* C5: a step in which a user action fails raises an error notification,
\* lets no exception out of its handler, saves no file and leaves the editor
\* text, the editor document, the preview and the file name as they were.
FailuresAreLocal ==
  [][event' \in FailureEvents =>
       /\ toast' = "error"
       /\ ~escaped'
       /\ saved' = NoFile
       /\ UNCHANGED <<svgCode, doc, previewSvgCode, fileName>>]_vars

CanvasContextFailed ==
  /\ event = "export_no_ctx"
  /\ toast = "error"
  /\ saved = NoFile
  /\ canvas # NoCanvas

\* a width or height attribute that parseInt reads as a usable number
Stated(a) == HasAttr(a) /\ Truthy(ParseIntAttr(a))

\* a four-number viewBox whose width and height exportAsImage can use
UsableViewBox(t) ==
  FourNumbers(t) /\ Truthy(t.vb[3]) /\ Truthy(t.vb[4])

\* C6: explicit attribute, then viewBox, then default, per dimension: a
\* stated width or height is never replaced by a viewBox value or a default,
\* and a default is used for a dimension only when it is neither stated nor
\* given by a four-number viewBox; for ensureSvgDimensions (where stated
\* means present) and for exportAsImage (where stated means present and
\* read by parseInt as a non-zero number, and a viewBox of zero width or
\* height counts as giving nothing).
DimensionFallbackOrder ==
  svgCode.kind = "svg" =>
    /\ event = "ensured" =>
         /\ HasAttr(svgCode.w) => previewSvgCode.w = svgCode.w
         /\ HasAttr(svgCode.h) => previewSvgCode.h = svgCode.h
         /\ ~HasAttr(svgCode.w) /\ previewSvgCode.w = DefaultPreviewSize =>
              ~FourNumbers(svgCode)
         /\ ~HasAttr(svgCode.h) /\ previewSvgCode.h = DefaultPreviewSize =>
              ~FourNumbers(svgCode)
    /\ canvas # NoCanvas =>
         /\ Stated(svgCode.w) => canvas[1] = svgCode.w
         /\ Stated(svgCode.h) => canvas[2] = svgCode.h
         /\ canvas[1] = DefaultExportWidth =>
              ~Stated(svgCode.w) /\ ~UsableViewBox(svgCode)
         /\ canvas[2] = DefaultExportHeight =>
              ~Stated(svgCode.h) /\ ~UsableViewBox(svgCode)

\* C7: with a preview on screen there is a user action that moves the
\* preview's translation away from the origin.
CanPan ==
  ~pending /\ ~PlaceholderShown /\ PreviewTransform.translate = position =>
    ENABLED (Next /\ position' # Origin)

\* C8: in every quiescent state (no effect and no file read pending) the
\* preview is ensureSvgDimensions of the editor text.
PreviewIsNormalisedCopy ==
  ~pending /\ reading = {} =>
    previewSvgCode = ensureSvgDimensions(svgCode)

\* C9: once all the reads of a batch of uploads have completed (and nothing
\* but the uploads touched name or text), the file name and the editor text
\* come from the same file.
UploadsConsistent ==
  clean /\ reading = {} /\ ~pending =>
    \E f \in Files :
      /\ fileName = NameWithoutExt(f.name)
      /\ svgCode = CMDoc(f.content)

\* C10: the synchronisation of svgCode and the editor document ends after
\* finitely many steps: a scheduled effect can always run, the effect runs at
\* most twice in a row, and when none is scheduled the editor document
\* equals svgCode.
SyncConverges ==
  /\ pending => ENABLED RunEffect
  /\ chain <= 2
  /\ chain = 2 => ~pending
  /\ ~pending => doc = svgCode

SyncedAfterNormalising ==
  /\ ~pending
  /\ event = "effect"
  /\ chain = 2
  /\ clean
  /\ doc = svgCode
  /\ svgCode = CMDoc(SvgBare)
  /\ previewSvgCode = ensureSvgDimensions(svgCode)

====
